---- MODULE Spec2Model ----
(***************************************************************************)
(* Model of swarm_config.py: the agent registry AGENTS, the module-level   *)
(* statements that attach tools to the agents, the two lookup helpers      *)
(* transfer_to_agent and get_agent_by_task, and the three tool stubs.      *)
(*                                                                         *)
(* A Python str is modelled as a sequence of one-character strings, so     *)
(* that str.lower(), the `in` substring test, str.split and len are        *)
(* computed character by character.  Dictionary keys and agent names,      *)
(* which the code only compares for equality, are TLA+ strings.            *)
(***************************************************************************)
EXTENDS Integers, Sequences, FiniteSets, TLC

VARIABLES pc, AGENTS, ret, prev

vars == <<pc, AGENTS, ret, prev>>

(***************************************************************************)
(* Bounds of the input space.                                              *)
(***************************************************************************)
\* a task description is the concatenation of at most MaxFrags fragments
MaxFrags == 2

(***************************************************************************)
(* String literals of the source.                                          *)
(***************************************************************************)
kw_research == <<"r", "e", "s", "e", "a", "r", "c", "h">>
kw_code == <<"c", "o", "d", "e">>
kw_data == <<"d", "a", "t", "a">>
kw_testing == <<"t", "e", "s", "t", "i", "n", "g">>
kw_quality == <<"q", "u", "a", "l", "i", "t", "y">>
kw_coordinate == <<"c", "o", "o", "r", "d", "i", "n", "a", "t", "e">>

SearchPrefix == <<"S", "e", "a", "r", "c", "h", " ", "r", "e", "s", "u", "l", "t", "s", " ", "f", "o", "r", ":", " ">>

(***************************************************************************)
(* Inputs: the strings the host process passes to the helpers.             *)
(***************************************************************************)
CODE == <<"C", "O", "D", "E">>
CoDe == <<"C", "o", "D", "e">>
Research == <<"R", "e", "s", "e", "a", "r", "c", "h">>
ing == <<"i", "n", "g">>
cod == <<"c", "o", "d">>
xyz == <<"x", "y", "z">>
PleaseCoordinateTheTesting == <<"p", "l", "e", "a", "s", "e", " ", "c", "o", "o", "r", "d", "i", "n", "a", "t", "e", " ", "t", "h", "e", " ", "t", "e", "s", "t", "i", "n", "g">>
XyzUnrelated == <<"x", "y", "z", "-", "u", "n", "r", "e", "l", "a", "t", "e", "d">>
Coding == <<"c", "o", "d", "i", "n", "g">>
Decoder == <<"d", "e", "c", "o", "d", "e", "r">>

Fragments ==
    { kw_research, kw_code, kw_data, kw_testing, kw_quality, kw_coordinate,
      CODE, CoDe, Research, ing, cod, xyz, <<" ">>, <<"\n">> }

Examples == { PleaseCoordinateTheTesting, XyzUnrelated, Coding, Decoder }

RECURSIVE Compose(_)
Compose(n) ==
    IF n = 0 THEN { <<>> }
    ELSE LET shorter == Compose(n - 1)
         IN  shorter \cup { t \o f : t \in shorter, f \in Fragments }

\* the str arguments tried for task_type, query, code and (as a list) data
Texts == Compose(MaxFrags) \cup Examples

\* the str arguments tried for agent_name
Names ==
    { "coordinator", "research", "code", "data", "qa",
      "nonexistent", "Code", "QA", "Coordinator", "Research Agent", "" }

(***************************************************************************)
(* Agent construction and the registry (lines 12-90).                      *)
(***************************************************************************)
\* swarm.Agent(name=..., instructions=...): functions defaults to []
Agent(name, instructions) ==
    [name |-> name, instructions |-> instructions, functions |-> <<>>]

create_coordinator_agent == Agent("Coordinator", "You are the main coordinator agent.")
create_research_agent == Agent("Research Agent", "You are a research specialist.")
create_code_agent == Agent("Code Agent", "You are a code specialist.")
create_data_agent == Agent("Data Agent", "You are a data specialist.")
create_qa_agent == Agent("QA Agent", "You are a quality assurance specialist.")

Registry ==
    [k \in {"coordinator", "research", "code", "data", "qa"} |->
        CASE k = "coordinator" -> create_coordinator_agent
          [] k = "research" -> create_research_agent
          [] k = "code" -> create_code_agent
          [] k = "data" -> create_data_agent
          [] k = "qa" -> create_qa_agent]

\* a tool reference: a module-level function attached to an agent
Tool(f) == [fn |-> f]

\* lambda task: transfer_to_agent(target)
TransferLambda(target) == [fn |-> "lambda", target |-> target]

\* variant: the lambdas built in a loop, all bound to the last target
CoordinatorFunctions_LateBinding ==
    << TransferLambda("qa"), TransferLambda("qa"),
       TransferLambda("qa"), TransferLambda("qa") >>

CoordinatorFunctions ==
    << TransferLambda("research"), TransferLambda("code"),
       TransferLambda("data"), TransferLambda("qa") >>

\* AGENTS[key].functions = fs
SetFunctions(agents, key, fs) ==
    [agents EXCEPT ![key] = [@ EXCEPT !.functions = fs]]

(***************************************************************************)
(* str.lower(), `keyword in s`, str.split (ASCII letters).                 *)
(***************************************************************************)
UpperAlpha == <<"A", "B", "C", "D", "E", "F", "G", "H", "I", "J", "K", "L", "M",
                "N", "O", "P", "Q", "R", "S", "T", "U", "V", "W", "X", "Y", "Z">>
LowerAlpha == <<"a", "b", "c", "d", "e", "f", "g", "h", "i", "j", "k", "l", "m",
                "n", "o", "p", "q", "r", "s", "t", "u", "v", "w", "x", "y", "z">>

LowerChar(c) ==
    IF \E i \in 1..Len(UpperAlpha) : UpperAlpha[i] = c
    THEN LowerAlpha[CHOOSE i \in 1..Len(UpperAlpha) : UpperAlpha[i] = c]
    ELSE c

\* variant: the description is not lower-cased
Lower_Omitted(s) == s

\* s.lower()
Lower(s) == [i \in 1..Len(s) |-> LowerChar(s[i])]

\* variant: s.startswith(keyword)
IsSubstring_Prefix(keyword, s) ==
    /\ Len(keyword) <= Len(s)
    /\ SubSeq(s, 1, Len(keyword)) = keyword

\* keyword in s
IsSubstring(keyword, s) ==
    \E i \in 1..(Len(s) - Len(keyword) + 1) :
        SubSeq(s, i, i + Len(keyword) - 1) = keyword

\* s.split(sep) for a one-character separator: the segments between separators
RECURSIVE SplitFrom(_, _, _, _)
SplitFrom(s, sep, i, cur) ==
    IF i > Len(s) THEN << cur >>
    ELSE IF s[i] = sep THEN << cur >> \o SplitFrom(s, sep, i + 1, <<>>)
    ELSE SplitFrom(s, sep, i + 1, Append(cur, s[i]))

\* variant: s.splitlines(), which has no segment after a final separator
Split_SplitLines(s, sep) ==
    LET all == SplitFrom(s, sep, 1, <<>>)
    IN  IF all[Len(all)] = <<>> THEN SubSeq(all, 1, Len(all) - 1) ELSE all

Split(s, sep) == SplitFrom(s, sep, 1, <<>>)

(***************************************************************************)
(* Results of a call.                                                      *)
(***************************************************************************)
NoCall == [fn |-> "none"]

Return(v) == [status |-> "ok", value |-> v]
Raise(type, msg) == [status |-> type, value |-> [type |-> type, msg |-> msg]]

\* AGENTS[key]: a missing key raises KeyError
Subscript(agents, key) ==
    IF key \in DOMAIN agents THEN Return(agents[key]) ELSE Raise("KeyError", key)

(***************************************************************************)
(* transfer_to_agent (lines 93-98).                                        *)
(***************************************************************************)
\* variant: an unknown name falls back to the coordinator
transfer_to_agent_Fallback(agents, agent_name) ==
    IF agent_name \in DOMAIN agents
    THEN Return(agents[agent_name])
    ELSE Return(agents["coordinator"])

transfer_to_agent(agents, agent_name) ==
    IF agent_name \in DOMAIN agents
    THEN Return(agents[agent_name])
    ELSE Raise("ValueError", <<"Unknown agent: ", agent_name>>)

(***************************************************************************)
(* get_agent_by_task (lines 100-115).                                      *)
(***************************************************************************)
\* variant: "coordinate" declared before "testing"
task_mapping_CoordinateFirst ==
    << [keyword |-> kw_research, agent_name |-> "research"],
       [keyword |-> kw_code, agent_name |-> "code"],
       [keyword |-> kw_data, agent_name |-> "data"],
       [keyword |-> kw_coordinate, agent_name |-> "coordinator"],
       [keyword |-> kw_testing, agent_name |-> "qa"],
       [keyword |-> kw_quality, agent_name |-> "qa"] >>

\* variant: "testing" mapped to a name that is no key of AGENTS
task_mapping_Dangling ==
    << [keyword |-> kw_research, agent_name |-> "research"],
       [keyword |-> kw_code, agent_name |-> "code"],
       [keyword |-> kw_data, agent_name |-> "data"],
       [keyword |-> kw_testing, agent_name |-> "testing"],
       [keyword |-> kw_quality, agent_name |-> "qa"],
       [keyword |-> kw_coordinate, agent_name |-> "coordinator"] >>

\* the dict literal, in insertion order
task_mapping ==
    << [keyword |-> kw_research, agent_name |-> "research"],
       [keyword |-> kw_code, agent_name |-> "code"],
       [keyword |-> kw_data, agent_name |-> "data"],
       [keyword |-> kw_testing, agent_name |-> "qa"],
       [keyword |-> kw_quality, agent_name |-> "qa"],
       [keyword |-> kw_coordinate, agent_name |-> "coordinator"] >>

\* variant: no return after the loop, the function returns None
Fallback_None(agents) == Return([name |-> "None"])

\* return AGENTS["coordinator"]
Fallback(agents) == Subscript(agents, "coordinator")

\* for keyword, agent_name in task_mapping.items(): from the i-th item on
RECURSIVE ScanMapping(_, _, _)
ScanMapping(agents, task_type, i) ==
    IF i > Len(task_mapping) THEN Fallback(agents)
    ELSE IF IsSubstring(task_mapping[i].keyword, Lower(task_type))
         THEN Subscript(agents, task_mapping[i].agent_name)
         ELSE ScanMapping(agents, task_type, i + 1)

\* variant: the loop does not return at the first match, the last match wins
RECURSIVE ScanMappingLast(_, _, _, _)
ScanMappingLast(agents, task_type, i, found) ==
    IF i > Len(task_mapping) THEN found
    ELSE IF IsSubstring(task_mapping[i].keyword, Lower(task_type))
         THEN ScanMappingLast(agents, task_type, i + 1,
                              Subscript(agents, task_mapping[i].agent_name))
         ELSE ScanMappingLast(agents, task_type, i + 1, found)

get_agent_by_task_LastMatch(agents, task_type) ==
    ScanMappingLast(agents, task_type, 1, Fallback(agents))

get_agent_by_task(agents, task_type) == ScanMapping(agents, task_type, 1)

(***************************************************************************)
(* Tool stubs (lines 118-136).                                             *)
(***************************************************************************)
search_web(query) == Return(SearchPrefix \o query)

analyze_code(code) ==
    Return([lines |-> Len(Split(code, "\n")),
            complexity |-> "medium",
            suggestions |-> <<"Consider adding error handling", "Add type hints">>])

process_data(data) ==
    Return([count |-> Len(data),
            summary |-> "Data processed successfully",
            insights |-> <<"Pattern identified", "Anomaly detected">>])

\* AGENTS["coordinator"].functions[index - 1](task)
coordinator_function(agents, index, task) ==
    transfer_to_agent(agents, agents["coordinator"].functions[index].target)

(***************************************************************************)
(* State machine.                                                          *)
(***************************************************************************)
\* the state after the AGENTS dict literal (line 90) has been evaluated
Init ==
    /\ pc = "line139"
    /\ AGENTS = Registry
    /\ ret = NoCall
    /\ prev = NoCall

\* AGENTS["research"].functions = [search_web]
RegisterResearchTools ==
    /\ pc = "line139"
    /\ AGENTS' = SetFunctions(AGENTS, "research", << Tool("search_web") >>)
    /\ pc' = "line140"
    /\ UNCHANGED <<ret, prev>>

\* AGENTS["code"].functions = [analyze_code]
RegisterCodeTools ==
    /\ pc = "line140"
    /\ AGENTS' = SetFunctions(AGENTS, "code", << Tool("analyze_code") >>)
    /\ pc' = "line141"
    /\ UNCHANGED <<ret, prev>>

\* AGENTS["data"].functions = [process_data]
RegisterDataTools ==
    /\ pc = "line141"
    /\ AGENTS' = SetFunctions(AGENTS, "data", << Tool("process_data") >>)
    /\ pc' = "line144"
    /\ UNCHANGED <<ret, prev>>

\* AGENTS["coordinator"].functions = [lambda task: ..., ...]; the module is loaded
RegisterCoordinatorTransfers ==
    /\ pc = "line144"
    /\ AGENTS' = SetFunctions(AGENTS, "coordinator", CoordinatorFunctions)
    /\ pc' = "ready"
    /\ UNCHANGED <<ret, prev>>

\* The arguments the host may pass to fn once the module is loaded: any of
\* the inputs S for a fresh call, or again the argument of the call of fn
\* that has just returned.
Args(fn, S) ==
    IF pc # "ready" THEN {}
    ELSE IF ret = NoCall THEN S
    ELSE IF ret.fn = fn THEN { ret.arg }
    ELSE {}

Completed(fn, arg, result) ==
    [fn |-> fn, arg |-> arg, status |-> result.status, value |-> result.value]

TransferToAgent ==
    \E agent_name \in Args("transfer_to_agent", Names) :
        /\ ret' = Completed("transfer_to_agent", agent_name,
                            transfer_to_agent(AGENTS, agent_name))
        /\ prev' = ret
        /\ UNCHANGED <<pc, AGENTS>>

GetAgentByTask ==
    \E task_type \in Args("get_agent_by_task", Texts) :
        /\ ret' = Completed("get_agent_by_task", task_type,
                            get_agent_by_task(AGENTS, task_type))
        /\ prev' = ret
        /\ UNCHANGED <<pc, AGENTS>>

SearchWeb ==
    \E query \in Args("search_web", Texts) :
        /\ ret' = Completed("search_web", query, search_web(query))
        /\ prev' = ret
        /\ UNCHANGED <<pc, AGENTS>>

AnalyzeCode ==
    \E code \in Args("analyze_code", Texts) :
        /\ ret' = Completed("analyze_code", code, analyze_code(code))
        /\ prev' = ret
        /\ UNCHANGED <<pc, AGENTS>>

\* variant: the tool resets the tool list of its agent
ProcessData_ClearsTools ==
    \E data \in Args("process_data", Texts) :
        /\ ret' = Completed("process_data", data, process_data(data))
        /\ prev' = ret
        /\ AGENTS' = SetFunctions(AGENTS, "data", <<>>)
        /\ UNCHANGED pc

ProcessData ==
    \E data \in Args("process_data", Texts) :
        /\ ret' = Completed("process_data", data, process_data(data))
        /\ prev' = ret
        /\ UNCHANGED <<pc, AGENTS>>

CoordinatorTransfer ==
    \E call \in Args("coordinator_function",
                     [index : 1..Len(AGENTS["coordinator"].functions), task : Texts]) :
        /\ ret' = Completed("coordinator_function", call,
                            coordinator_function(AGENTS, call.index, call.task))
        /\ prev' = ret
        /\ UNCHANGED <<pc, AGENTS>>

\* the host drops the result and is free to make any other call
Discard ==
    /\ pc = "ready"
    /\ ret # NoCall
    /\ ret' = NoCall
    /\ prev' = NoCall
    /\ UNCHANGED <<pc, AGENTS>>

Next ==
    \/ RegisterResearchTools
    \/ RegisterCodeTools
    \/ RegisterDataTools
    \/ RegisterCoordinatorTransfers
    \/ TransferToAgent
    \/ GetAgentByTask
    \/ SearchWeb
    \/ AnalyzeCode
    \/ ProcessData
    \/ CoordinatorTransfer
    \/ Discard

Spec == Init /\ [][Next]_vars

(***************************************************************************)
(* Properties.                                                             *)
(***************************************************************************)
Range(f) == { f[x] : x \in DOMAIN f }

Min(S) == CHOOSE m \in S : \A n \in S : m <= n

UpperOf(c) ==
    IF \E i \in 1..Len(LowerAlpha) : LowerAlpha[i] = c
    THEN UpperAlpha[CHOOSE i \in 1..Len(LowerAlpha) : LowerAlpha[i] = c]
    ELSE c

\* the lower-case word k occurs in s, each letter in either case
ContainsAnyCase(k, s) ==
    \E o \in 0..(Len(s) - Len(k)) :
        \A j \in 1..Len(k) : s[o + j] \in { k[j], UpperOf(k[j]) }

DeclarationOrder ==
    << kw_research, kw_code, kw_data, kw_testing, kw_quality, kw_coordinate >>

\* the agent paired with keyword k
AgentOf(k) ==
    (CHOOSE p \in Range(task_mapping) : p.keyword = k).agent_name

Matching(s) ==
    { i \in 1..Len(DeclarationOrder) : ContainsAnyCase(DeclarationOrder[i], s) }

FirstMatchAgent(s) ==
    IF Matching(s) = {} THEN "coordinator"
    ELSE AgentOf(DeclarationOrder[Min(Matching(s))])

RegisteredKeys == {"coordinator", "research", "code", "data", "qa"}

Routed == ret.fn = "get_agent_by_task"

\* C1: get_agent_by_task returns the agent of the first pair, in the
\* declaration order research, code, data, testing, quality, coordinate, whose
\* keyword occurs in the lower-cased description, whatever later keywords
\* match; with no keyword in the description it returns the coordinator.
C1_FirstMatchWins ==
    Routed =>
        /\ ret.status = "ok"
        /\ ret.value = AGENTS[FirstMatchAgent(ret.arg)]

\* "coordinatecode": the later-declared, longer keyword comes first in the text
C1_Witness ==
    /\ Routed
    /\ ret.arg = kw_coordinate \o kw_code
    /\ Matching(ret.arg) = {2, 6}
    /\ ret.value.name = "Code Agent"

\* C2: transfer_to_agent returns the registered agent for exactly the keys
\* coordinator, research, code, data, qa, and for every other identifier it
\* raises ValueError, returns no agent and leaves AGENTS unchanged.
C2_TransferResolves ==
    [][ ret'.fn = "transfer_to_agent" =>
          /\ AGENTS' = AGENTS
          /\ DOMAIN AGENTS = RegisteredKeys
          /\ IF ret'.arg \in RegisteredKeys
             THEN ret'.status = "ok" /\ ret'.value = AGENTS[ret'.arg]
             ELSE ret'.status = "ValueError" /\ ret'.value \notin Range(AGENTS) ]_vars

C2_Witness ==
    /\ ret.fn = "transfer_to_agent"
    /\ ret.arg = "nonexistent"
    /\ ret.status = "ValueError"

\* C3: every target of the task mapping, and the default, is a key of AGENTS;
\* get_agent_by_task never raises KeyError and the agent it returns is one
\* that transfer_to_agent resolves.
C3_NoDanglingReference ==
    /\ \A i \in 1..Len(task_mapping) : task_mapping[i].agent_name \in DOMAIN AGENTS
    /\ "coordinator" \in DOMAIN AGENTS
    /\ Routed =>
          /\ ret.status # "KeyError"
          /\ \E k \in DOMAIN AGENTS :
                transfer_to_agent(AGENTS, k) = Return(ret.value)

C3_Witness ==
    /\ Routed
    /\ ret.arg = kw_testing
    /\ transfer_to_agent(AGENTS, "qa") = Return(ret.value)

\* C4: get_agent_by_task never fails, a second call with the same string
\* returns the same agent, and "" and "xyz-unrelated" yield the coordinator.
C4_TotalDeterministic ==
    Routed =>
        /\ ret.status = "ok"
        /\ ret.value \in Range(AGENTS)
        /\ (prev.fn = "get_agent_by_task" /\ prev.arg = ret.arg) => prev.value = ret.value
        /\ ret.arg \in { <<>>, XyzUnrelated } => ret.value = AGENTS["coordinator"]

\* "xyz-unrelated" routed twice in a row
C4_Witness ==
    /\ Routed
    /\ prev.fn = "get_agent_by_task"
    /\ ret.arg = XyzUnrelated
    /\ ret.value.name = "Coordinator"

\* C5: a description that contains "code" in any letter case and does not
\* contain "research" (in any letter case) is routed to the code agent.
C5_CodeAnyCase ==
    (Routed /\ ContainsAnyCase(kw_code, ret.arg) /\ ~ContainsAnyCase(kw_research, ret.arg))
        => (ret.status = "ok" /\ ret.value = AGENTS["code"])

\* "CoDetesting": mixed case, and a later keyword matches too
C5_Witness ==
    /\ Routed
    /\ ret.arg = CoDe \o kw_testing
    /\ ret.value.name = "Code Agent"

\* C6: "please coordinate the testing" is routed to the qa agent, because
\* "testing" is declared before "coordinate"; it is not routed to the coordinator.
C6_TestingBeforeCoordinate ==
    (Routed /\ ret.arg = PleaseCoordinateTheTesting) =>
        /\ ret.value = AGENTS["qa"]
        /\ ret.value # AGENTS["coordinator"]

C6_Witness ==
    /\ Routed
    /\ ret.arg = PleaseCoordinateTheTesting
    /\ Matching(ret.arg) = {4, 6}

\* C7 as stated: "coding" matches the keyword "code" and is routed to the
\* code agent.
C7_CodingMatchesCode ==
    (Routed /\ ret.arg = Coding) => ret.value = AGENTS["code"]

\* C7 amended: matching is by substring, so "decoder", which has "code" inside
\* a longer word, is routed to the code agent; "coding" does not contain
\* "code" and is routed to the coordinator.
C7_SubstringMatch ==
    /\ (Routed /\ ret.arg = Decoder) => ret.value = AGENTS["code"]
    /\ (Routed /\ ret.arg = Coding) => ret.value = AGENTS["coordinator"]

C7_Witness ==
    /\ Routed
    /\ ret.arg = Coding
    /\ ret.value.name = "Coordinator"

Newlines(s) == Cardinality({ i \in 1..Len(s) : s[i] = "\n" })

\* s is N non-empty lines separated by single newlines, N >= 1
NonEmptyLines(s) ==
    /\ Len(s) > 0
    /\ s[1] # "\n"
    /\ s[Len(s)] # "\n"
    /\ \A i \in 1..(Len(s) - 1) : ~(s[i] = "\n" /\ s[i + 1] = "\n")

\* C8 as stated: on a string of N newline-separated lines the line count is
\* N + 1.  It is stated for the strings whose number of lines is beyond
\* dispute: N non-empty lines with one newline between neighbours.
C8_LinesPlusOne ==
    (ret.fn = "analyze_code" /\ NonEmptyLines(ret.arg)) =>
        ret.value.lines = (Newlines(ret.arg) + 1) + 1

\* C8 amended: on a string that contains N newline characters the line
\* count is N + 1.
C8_NewlinesPlusOne ==
    ret.fn = "analyze_code" =>
        /\ ret.status = "ok"
        /\ ret.value.lines = Newlines(ret.arg) + 1

\* "code\n": one newline, at the end
C8_Witness ==
    /\ ret.fn = "analyze_code"
    /\ ret.arg = kw_code \o <<"\n">>
    /\ ret.value.lines = 2

\* C9: once the module is loaded no call, successful or failed, changes the
\* keys of AGENTS or any agent's name, instructions or tool list.
C9_RegistryReadOnly ==
    [][ pc = "ready" =>
          /\ DOMAIN AGENTS' = DOMAIN AGENTS
          /\ \A k \in DOMAIN AGENTS :
                /\ AGENTS'[k].name = AGENTS[k].name
                /\ AGENTS'[k].instructions = AGENTS[k].instructions
                /\ AGENTS'[k].functions = AGENTS[k].functions ]_vars

\* process_data called twice in a row on the loaded module
C9_Witness ==
    /\ pc = "ready"
    /\ ret.fn = "process_data"
    /\ prev.fn = "process_data"
    /\ AGENTS["data"].functions = << Tool("process_data") >>

ClaimedTargets == << "research", "code", "data", "qa" >>

\* C10: the coordinator has exactly four transfer functions; each returns
\* its fixed target (research, code, data, qa in that order) whatever the
\* task text, never raises and never returns the coordinator; the qa agent
\* has no tool.
C10_CoordinatorTransfers ==
    pc = "ready" =>
        /\ Len(AGENTS["coordinator"].functions) = 4
        /\ AGENTS["qa"].functions = <<>>
        /\ ret.fn = "coordinator_function" =>
              /\ ret.status = "ok"
              /\ ret.value = AGENTS[ClaimedTargets[ret.arg.index]]
              /\ ret.value # AGENTS["coordinator"]

\* the third function called with the task text "research"
C10_Witness ==
    /\ ret.fn = "coordinator_function"
    /\ ret.arg = [index |-> 3, task |-> kw_research]
    /\ ret.value.name = "Data Agent"

====
